---- MODULE Spec2Model ----
(***************************************************************************)
(* Grid traversal primitives of src/util.rs: the bounds predicate, the     *)
(* compass directions, single-direction neighbour lookup, the neighbour    *)
(* iterator (struct Surrounding) and flood_fill.                           *)
(*                                                                         *)
(* Coordinates are zero-based as in the source; a grid is a sequence of    *)
(* rows, so the cell plane[row][col] of the source is plane[row+1][col+1]. *)
(* A Rust panic (an index out of range) is an explicit outcome: every      *)
(* operator that can index the grid returns [panic |-> .., val |-> ..].    *)
(***************************************************************************)
EXTENDS Integers, Sequences, FiniteSets, TLC

VARIABLES
    plane,      \* the grid every call borrows (read-only)
    pc,         \* "idle" | "returned" | "panic" | "iter" | "flood"
    op,         \* name of the function that was called
    args,       \* arguments of the call
    ret,        \* value returned by the finished call / the last next()
    it,         \* struct Surrounding: [dirs, dir, row, col]
    yielded,    \* items the iterator instance has yielded so far (history)
    examined,   \* directions the instance has passed to apply_index (history)
    seen,       \* flood_fill: local `seen`
    region,     \* flood_fill: local `region`
    queue,      \* flood_fill: local `queue` (a Vec used as a stack)
    t,          \* flood_fill: local `t`, the start cell's value once bound
    visited     \* flood_fill: coordinates whose loop body ran past `continue`,
                \* in order (history)

vars == <<plane, pc, op, args, ret, it, yielded, examined, seen, region, queue, t, visited>>

-----------------------------------------------------------------------------
(* Bounds of the model *)

\* exhaustive two-valued grids: at most FloodRows rows of at most FloodCols cells
FloodRows == 2
FloodCols == 2
\* every jagged shape of at most MaxRows rows of at most MaxCols cells
MaxRows == 3
MaxCols == 3
\* the grids of the traversal in arbitrary order: at most AnyCells cells
AnyCells == 4
\* a caller turns right at most MaxTurns times in a row
MaxTurns == 4

Values == {0, 1}

-----------------------------------------------------------------------------
(* Option<T> and the outcome of a computation that may panic *)

None == <<"None">>
Some(v) == <<"Some", v>>
Unwrap(o) == o[2]

Ok(v) == [panic |-> FALSE, val |-> v]
Panic == [panic |-> TRUE, val |-> None]

\* `let x = v; F(x)`: v is evaluated once, before F
Let(v, F(_)) == CHOOSE r \in { F(x) : x \in {v} } : TRUE

-----------------------------------------------------------------------------
(* Grids *)

RowsOver(vals, maxc) == UNION { [1..n -> vals] : n \in 0..maxc }
PlanesOver(vals, maxr, maxc) == UNION { [1..m -> RowsOver(vals, maxc)] : m \in 0..maxr }

\* a grid of the given row lengths whose cells all differ
DistinctPlane(lens) ==
    [r \in 1..Len(lens) |-> [c \in 1..lens[r] |-> 10 * r + c]]
\* a grid of the given row lengths whose cells are all equal
UniformPlane(lens) ==
    [r \in 1..Len(lens) |-> [c \in 1..lens[r] |-> 0]]

Shapes == UNION { [1..m -> 0..MaxCols] : m \in 0..MaxRows }

\* the grids of the examples, [["A","A","B"],["A","B","B"]] and [["X"]], and
\* two grids of one value: a full one and one whose middle row is short
ExamplePlanes ==
    { << <<0, 0, 1>>, <<0, 1, 1>> >>,
      << <<0>> >>,
      << <<0, 0, 0>>, <<0, 0, 0>>, <<0, 0, 0>> >>,
      << <<0, 0, 0>>, <<0>>, <<0, 0, 0>> >> }

ShapePlanes ==
    { DistinctPlane(l) : l \in Shapes }
        \cup { UniformPlane(l) : l \in Shapes }
        \cup ExamplePlanes

FloodPlanes == PlanesOver(Values, FloodRows, FloodCols) \cup ExamplePlanes

NumRows(p) == Len(p)
\* length of the longest row
MaxRowLen(p) ==
    IF p = <<>> THEN 0
    ELSE CHOOSE n \in { Len(p[r]) : r \in 1..Len(p) } :
            \A r \in 1..Len(p) : Len(p[r]) <= n

\* the valid coordinates of a grid
Valid(p, row, col) ==
    /\ 0 <= row /\ row < Len(p)
    /\ 0 <= col /\ col < Len(p[row + 1])
Coords(p) == { <<r - 1, c - 1>> : r \in 1..Len(p), c \in 1..MaxRowLen(p) }
ValidCoords(p) == { rc \in Coords(p) : Valid(p, rc[1], rc[2]) }
NumCells(p) == Cardinality(ValidCoords(p))

\* plane[row as usize].len() for a signed row: the cast wraps a negative row to
\* a value no Vec length reaches, so the index is in range only for
\* 0 <= row < plane.len()
RowLen(p, row) ==
    IF 0 <= row /\ row < Len(p) THEN Ok(Len(p[row + 1])) ELSE Panic

\* plane[row][col] with row, col: usize
Index(p, row, col) ==
    IF row < Len(p) /\ col < Len(p[row + 1]) THEN Ok(p[row + 1][col + 1]) ELSE Panic

\* mutant: the column compared with <= instead of <
in_bounds_2d_col_le(p, row, col) ==
    IF 0 <= row /\ row < Len(p)
    THEN LET n == RowLen(p, row)
         IN  IF n.panic THEN Panic ELSE Ok(0 <= col /\ col <= n.val)
    ELSE Ok(FALSE)

\* mutant: both operands evaluated, the row index taken before the row is checked
in_bounds_2d_eager(p, row, col) ==
    LET n == RowLen(p, row)
    IN  IF n.panic THEN Panic
        ELSE Ok((0 <= row /\ row < Len(p)) /\ (0 <= col /\ col < n.val))

\* && evaluates its right operand only when the left one is true
in_bounds_2d(p, row, col) ==
    IF 0 <= row /\ row < Len(p)
    THEN LET n == RowLen(p, row)
         IN  IF n.panic THEN Panic ELSE Ok(0 <= col /\ col < n.val)
    ELSE Ok(FALSE)

-----------------------------------------------------------------------------
(* Direction *)

Direction == {"NW", "N", "NE", "W", "E", "SW", "S", "SE"}
\* mutant: the directions listed clockwise from N
ALL_clockwise == <<"N", "NE", "E", "SE", "S", "SW", "W", "NW">>
ALL == <<"NW", "N", "NE", "W", "E", "SW", "S", "SE">>
\* mutant: a direction left out
CARDINAL_no_W == <<"N", "S", "E">>
CARDINAL == <<"N", "S", "E", "W">>

to_offset(d) ==
    CASE d = "NW" -> <<-1, -1>>
      [] d = "N"  -> <<-1, 0>>
      [] d = "NE" -> <<-1, 1>>
      [] d = "W"  -> <<0, -1>>
      [] d = "E"  -> <<0, 1>>
      [] d = "SW" -> <<1, -1>>
      [] d = "S"  -> <<1, 0>>
      [] d = "SE" -> <<1, 1>>

\* mutant: the new column checked against the length of the row left behind
apply_index_own_row(d, p, row, col) ==
    LET row_off == to_offset(d)[1]
        col_off == to_offset(d)[2]
        off_row == row + row_off
        off_col == col + col_off
    IN  Let(in_bounds_2d(p, row, off_col), LAMBDA ib :
            IF ib.panic THEN Panic
            ELSE IF 0 <= off_row /\ off_row < Len(p) /\ ib.val
                      /\ ~(row_off = 0 /\ col_off = 0)
                 THEN Ok(Some(<<off_row, off_col>>))
                 ELSE Ok(None))

apply_index(d, p, row, col) ==
    LET row_off == to_offset(d)[1]
        col_off == to_offset(d)[2]
        off_row == row + row_off
        off_col == col + col_off
    IN  Let(in_bounds_2d(p, off_row, off_col), LAMBDA ib :
            IF ib.panic THEN Panic
            ELSE IF ib.val /\ ~(row_off = 0 /\ col_off = 0)
                 THEN Ok(Some(<<off_row, off_col>>))
                 ELSE Ok(None))

apply(d, p, row, col) ==
    LET ai == apply_index(d, p, row, col)
    IN  IF ai.panic THEN Panic
        ELSE IF ai.val = None THEN Ok(None)
        ELSE LET g == Index(p, Unwrap(ai.val)[1], Unwrap(ai.val)[2])
             IN  IF g.panic THEN Panic ELSE Ok(Some(g.val))

\* mutant: the quarter turn taken counterclockwise
right_90_left(d) ==
    CASE d = "NW" -> "SW"
      [] d = "N"  -> "W"
      [] d = "NE" -> "NW"
      [] d = "W"  -> "S"
      [] d = "E"  -> "N"
      [] d = "SW" -> "SE"
      [] d = "S"  -> "E"
      [] d = "SE" -> "NE"

\* mutant: W turns to S
right_90_w_to_s(d) ==
    CASE d = "NW" -> "NE"
      [] d = "N"  -> "E"
      [] d = "NE" -> "SE"
      [] d = "W"  -> "S"
      [] d = "E"  -> "S"
      [] d = "SW" -> "NW"
      [] d = "S"  -> "W"
      [] d = "SE" -> "SW"

right_90(d) ==
    CASE d = "NW" -> "NE"
      [] d = "N"  -> "E"
      [] d = "NE" -> "SE"
      [] d = "W"  -> "N"
      [] d = "E"  -> "S"
      [] d = "SW" -> "NW"
      [] d = "S"  -> "W"
      [] d = "SE" -> "SW"

-----------------------------------------------------------------------------
(* Surrounding: the neighbour iterator *)

\* the struct built by surrounding()
NewSurrounding(row, col, dirs) == [dirs |-> dirs, dir |-> 0, row |-> row, col |-> col]

\* mutant: an out-of-bounds direction ends the iteration instead of being skipped
next_stop_at_gap(p, self) ==
    IF self.dir >= Len(self.dirs)
    THEN [panic |-> FALSE, self |-> self, val |-> None, looked |-> <<>>]
    ELSE LET dir == self.dirs[self.dir + 1]
             self1 == [self EXCEPT !.dir = @ + 1]
         IN  Let(apply_index(dir, p, self.row, self.col), LAMBDA ai :
                IF ai.panic THEN [panic |-> TRUE, self |-> self1, val |-> None, looked |-> <<dir>>]
                ELSE IF ai.val # None
                THEN LET off_row == Unwrap(ai.val)[1]
                         off_col == Unwrap(ai.val)[2]
                         g == Index(p, off_row, off_col)
                     IN  IF g.panic
                         THEN [panic |-> TRUE, self |-> self1, val |-> None, looked |-> <<dir>>]
                         ELSE [panic |-> FALSE, self |-> self1,
                               val |-> Some(<<g.val, off_row, off_col, dir>>),
                               looked |-> <<dir>>]
                ELSE [panic |-> FALSE, self |-> self1, val |-> None, looked |-> <<dir>>])

\* mutant: an exhausted iterator rewinds its cursor to the first direction
RECURSIVE next_rewind(_, _)
next_rewind(p, self) ==
    IF self.dir >= Len(self.dirs)
    THEN [panic |-> FALSE, self |-> [self EXCEPT !.dir = 0], val |-> None, looked |-> <<>>]
    ELSE LET dir == self.dirs[self.dir + 1]
             self1 == [self EXCEPT !.dir = @ + 1]
         IN  Let(apply_index(dir, p, self.row, self.col), LAMBDA ai :
                IF ai.panic THEN [panic |-> TRUE, self |-> self1, val |-> None, looked |-> <<dir>>]
                ELSE IF ai.val # None
                THEN LET off_row == Unwrap(ai.val)[1]
                         off_col == Unwrap(ai.val)[2]
                         g == Index(p, off_row, off_col)
                     IN  IF g.panic
                         THEN [panic |-> TRUE, self |-> self1, val |-> None, looked |-> <<dir>>]
                         ELSE [panic |-> FALSE, self |-> self1,
                               val |-> Some(<<g.val, off_row, off_col, dir>>),
                               looked |-> <<dir>>]
                ELSE Let(next_rewind(p, self1), LAMBDA n :
                        [n EXCEPT !.looked = <<dir>> \o @]))

\* mutant: a call that finds an item also looks up the direction after it
RECURSIVE next_prefetch(_, _)
next_prefetch(p, self) ==
    IF self.dir >= Len(self.dirs)
    THEN [panic |-> FALSE, self |-> self, val |-> None, looked |-> <<>>]
    ELSE LET dir == self.dirs[self.dir + 1]
             self1 == [self EXCEPT !.dir = @ + 1]
             ahead == IF self1.dir < Len(self.dirs)
                      THEN <<self.dirs[self1.dir + 1]>> ELSE <<>>
         IN  Let(apply_index(dir, p, self.row, self.col), LAMBDA ai :
                IF ai.panic THEN [panic |-> TRUE, self |-> self1, val |-> None, looked |-> <<dir>>]
                ELSE IF ai.val # None
                THEN LET off_row == Unwrap(ai.val)[1]
                         off_col == Unwrap(ai.val)[2]
                         g == Index(p, off_row, off_col)
                     IN  IF g.panic
                         THEN [panic |-> TRUE, self |-> self1, val |-> None, looked |-> <<dir>>]
                         ELSE [panic |-> FALSE, self |-> self1,
                               val |-> Some(<<g.val, off_row, off_col, dir>>),
                               looked |-> <<dir>> \o ahead]
                ELSE Let(next_prefetch(p, self1), LAMBDA n :
                        [n EXCEPT !.looked = <<dir>> \o @]))

\* Surrounding::next: the outcome, the iterator afterwards, the item and the
\* directions the call passed to apply_index, in order.
\* An item is <<cell, row, col, direction>>.
RECURSIVE next(_, _)
next(p, self) ==
    IF self.dir >= Len(self.dirs)
    THEN [panic |-> FALSE, self |-> self, val |-> None, looked |-> <<>>]
    ELSE LET dir == self.dirs[self.dir + 1]
             self1 == [self EXCEPT !.dir = @ + 1]
         IN  Let(apply_index(dir, p, self.row, self.col), LAMBDA ai :
                IF ai.panic THEN [panic |-> TRUE, self |-> self1, val |-> None, looked |-> <<dir>>]
                ELSE IF ai.val # None
                THEN LET off_row == Unwrap(ai.val)[1]
                         off_col == Unwrap(ai.val)[2]
                         g == Index(p, off_row, off_col)
                     IN  IF g.panic
                         THEN [panic |-> TRUE, self |-> self1, val |-> None, looked |-> <<dir>>]
                         ELSE [panic |-> FALSE, self |-> self1,
                               val |-> Some(<<g.val, off_row, off_col, dir>>),
                               looked |-> <<dir>>]
                ELSE Let(next(p, self1), LAMBDA n :
                        [n EXCEPT !.looked = <<dir>> \o @]))

\* surrounding(): tracing::trace! evaluates its arguments, plane[row][col]
\* among them, only when the TRACE level is enabled
surrounding(p, row, col, dirs, trace) ==
    IF trace /\ Index(p, row, col).panic THEN Panic
    ELSE Ok(NewSurrounding(row, col, dirs))

surrounding_all(p, row, col, trace) == surrounding(p, row, col, ALL, trace)
\* mutant: the flood-fill neighbourhood taken over all 8 directions
surrounding_cardinal_all8(p, row, col, trace) == surrounding(p, row, col, ALL, trace)
surrounding_cardinal(p, row, col, trace) == surrounding(p, row, col, CARDINAL, trace)

\* a for loop over the iterator: next() until it returns None; the items in order
RECURSIVE Drain(_, _)
Drain(p, self) ==
    Let(next(p, self), LAMBDA n :
        IF n.panic THEN Panic
        ELSE IF n.val = None THEN Ok(<<>>)
        ELSE Let(Drain(p, n.self), LAMBDA rest :
                IF rest.panic THEN Panic ELSE Ok(<<Unwrap(n.val)>> \o rest.val)))

-----------------------------------------------------------------------------
(* flood_fill *)

\* mutant: the start cell is read without a bounds check
flood_init_unchecked(p, row, col) ==
    Ok([seen |-> {}, region |-> {<<row, col>>}, t |-> Index(p, row, col).val,
        queue |-> <<<<row, col>>>>])

\* mutant: seen built holding the start, like region
flood_init_seen_start(p, row, col) ==
    LET g == Index(p, row, col)
    IN  IF g.panic THEN Panic
        ELSE Ok([seen |-> {<<row, col>>}, region |-> {<<row, col>>}, t |-> g.val,
                 queue |-> <<<<row, col>>>>])

\* the locals before the while loop
flood_init(p, row, col) ==
    LET g == Index(p, row, col)
    IN  IF g.panic THEN Panic
        ELSE Ok([seen |-> {}, region |-> {<<row, col>>}, t |-> g.val,
                 queue |-> <<<<row, col>>>>])

\* mutant: every neighbour is pushed, whatever its value
Pushes_any_value(items, tv) ==
    [i \in 1..Len(items) |-> <<items[i][2], items[i][3]>>]

\* the pushes of the for loop: the coordinates of the items equal to t, in order
RECURSIVE Pushes(_, _)
Pushes(items, tv) ==
    IF items = <<>> THEN <<>>
    ELSE LET item == Head(items)
         IN  (IF item[1] = tv THEN <<<<item[2], item[3]>>>> ELSE <<>>)
                \o Pushes(Tail(items), tv)

\* mutant: a neighbour already in seen is not pushed
flood_body_push_unseen(p, st, trace) ==
    LET rc == st.queue[Len(st.queue)]
        popped == SubSeq(st.queue, 1, Len(st.queue) - 1)
    IN  IF rc \in st.seen
        THEN Ok([st EXCEPT !.queue = popped] @@ [visit |-> None])
        ELSE LET sc == surrounding_cardinal(p, rc[1], rc[2], trace)
             IN  Let(IF sc.panic THEN Panic ELSE Drain(p, sc.val), LAMBDA items :
                    IF items.panic THEN Panic
                    ELSE Ok([seen |-> st.seen \cup {rc},
                             region |-> st.region \cup {rc},
                             t |-> st.t,
                             queue |-> popped \o SelectSeq(Pushes(items.val, st.t),
                                                 LAMBDA c : c \notin st.seen \cup {rc}),
                             visit |-> Some(rc)]))

\* mutant: no check of seen before the body
flood_body_no_seen_check(p, st, trace) ==
    LET rc == st.queue[Len(st.queue)]
        popped == SubSeq(st.queue, 1, Len(st.queue) - 1)
        sc == surrounding_cardinal(p, rc[1], rc[2], trace)
    IN  Let(IF sc.panic THEN Panic ELSE Drain(p, sc.val), LAMBDA items :
            IF items.panic THEN Panic
            ELSE Ok([seen |-> st.seen \cup {rc},
                     region |-> st.region \cup {rc},
                     t |-> st.t,
                     queue |-> popped \o Pushes(items.val, st.t),
                     visit |-> Some(rc)]))

\* mutant: `break` for `continue`: a coordinate already seen ends the loop
flood_body_break(p, st, trace) ==
    LET rc == st.queue[Len(st.queue)]
    IN  IF rc \in st.seen
        THEN Ok([st EXCEPT !.queue = <<>>] @@ [visit |-> None])
        ELSE flood_body_no_seen_check(p, st, trace)

\* mutant: a coordinate already seen is looked at but left on the queue
flood_body_peek(p, st, trace) ==
    LET rc == st.queue[Len(st.queue)]
        popped == SubSeq(st.queue, 1, Len(st.queue) - 1)
    IN  IF rc \in st.seen
        THEN Ok(st @@ [visit |-> None])
        ELSE LET sc == surrounding_cardinal(p, rc[1], rc[2], trace)
             IN  Let(IF sc.panic THEN Panic ELSE Drain(p, sc.val), LAMBDA items :
                    IF items.panic THEN Panic
                    ELSE Ok([seen |-> st.seen \cup {rc},
                             region |-> st.region \cup {rc},
                             t |-> st.t,
                             queue |-> popped \o Pushes(items.val, st.t),
                             visit |-> Some(rc)]))

\* one iteration of the while loop on a non-empty queue; visit is the
\* coordinate whose neighbours were enumerated, if any
flood_body(p, st, trace) ==
    LET rc == st.queue[Len(st.queue)]
        popped == SubSeq(st.queue, 1, Len(st.queue) - 1)
    IN  IF rc \in st.seen
        THEN Ok([st EXCEPT !.queue = popped] @@ [visit |-> None])
        ELSE LET sc == surrounding_cardinal(p, rc[1], rc[2], trace)
             IN  Let(IF sc.panic THEN Panic ELSE Drain(p, sc.val), LAMBDA items :
                    IF items.panic THEN Panic
                    ELSE Ok([seen |-> st.seen \cup {rc},
                             region |-> st.region \cup {rc},
                             t |-> st.t,
                             queue |-> popped \o Pushes(items.val, st.t),
                             visit |-> Some(rc)]))

\* mutant: removing a coordinate already seen ends the traversal
flood_body_at_break(p, st, i, trace) ==
    LET rc == st.queue[i]
        rest == SubSeq(st.queue, 1, i - 1) \o SubSeq(st.queue, i + 1, Len(st.queue))
    IN  IF rc \in st.seen
        THEN Ok([st EXCEPT !.queue = <<>>] @@ [visit |-> None])
        ELSE LET sc == surrounding_cardinal(p, rc[1], rc[2], trace)
             IN  Let(IF sc.panic THEN Panic ELSE Drain(p, sc.val), LAMBDA items :
                    IF items.panic THEN Panic
                    ELSE Ok([seen |-> st.seen \cup {rc},
                             region |-> st.region \cup {rc},
                             t |-> st.t,
                             queue |-> rest \o Pushes(items.val, st.t),
                             visit |-> Some(rc)]))

\* the loop body with the removal generalised: the entry at position i of the
\* queue is removed instead of the last one; flood_body is the case
\* i = Len(st.queue)
flood_body_at(p, st, i, trace) ==
    LET rc == st.queue[i]
        rest == SubSeq(st.queue, 1, i - 1) \o SubSeq(st.queue, i + 1, Len(st.queue))
    IN  IF rc \in st.seen
        THEN Ok([st EXCEPT !.queue = rest] @@ [visit |-> None])
        ELSE LET sc == surrounding_cardinal(p, rc[1], rc[2], trace)
             IN  Let(IF sc.panic THEN Panic ELSE Drain(p, sc.val), LAMBDA items :
                    IF items.panic THEN Panic
                    ELSE Ok([seen |-> st.seen \cup {rc},
                             region |-> st.region \cup {rc},
                             t |-> st.t,
                             queue |-> rest \o Pushes(items.val, st.t),
                             visit |-> Some(rc)]))

\* the whole function: its return value
RECURSIVE flood_loop(_, _)
flood_loop(p, st) ==
    IF st.queue = <<>> THEN Ok(st.region)
    ELSE LET b == flood_body(p, st, FALSE)
         IN  IF b.panic THEN Panic
             ELSE flood_loop(p, [seen |-> b.val.seen, region |-> b.val.region,
                                 t |-> b.val.t, queue |-> b.val.queue])

flood_fill(p, row, col) ==
    LET i == flood_init(p, row, col)
    IN  IF i.panic THEN Panic ELSE flood_loop(p, i.val)

-----------------------------------------------------------------------------
(* The callers: one call on the grid per behaviour, with every argument *)

\* usize arguments: the valid indices and one past them
CallRows(p) == 0..Len(p)
CallCols(p) == 0..MaxRowLen(p)
\* isize arguments
SignedRows(p) == -1..Len(p)
SignedCols(p) == -1..MaxRowLen(p)

NoValue == <<>>
\* the value a finished call returned, as held in ret
Returned(v) == <<"Returned", v>>
RetVal == ret[2]

Start ==
    /\ pc = "idle"
    /\ op = "none"
    /\ args = <<>>
    /\ ret = NoValue
    /\ it = NoValue
    /\ yielded = <<>>
    /\ examined = <<>>
    /\ seen = {}
    /\ region = {}
    /\ queue = <<>>
    /\ t = None
    /\ visited = <<>>

Init == plane \in ShapePlanes /\ Start

InitFlood == plane \in FloodPlanes /\ Start

\* a call of a function without loop: its outcome in pc and ret
Finish(name, a, r) ==
    /\ pc = "idle"
    /\ pc' = IF r.panic THEN "panic" ELSE "returned"
    /\ op' = name
    /\ args' = a
    /\ ret' = Returned(r.val)
    /\ UNCHANGED <<plane, it, yielded, examined, seen, region, queue, t, visited>>

CallInBounds(row, col) ==
    Finish("in_bounds_2d", <<row, col>>, in_bounds_2d(plane, row, col))

CallApplyIndex(d, row, col) ==
    Finish("apply_index", <<row, col, d>>, apply_index(d, plane, row, col))

CallApply(d, row, col) ==
    Finish("apply", <<row, col, d>>, apply(d, plane, row, col))

\* args: the direction the caller started from and the number of turns so far
CallRight90(d) ==
    Finish("right_90", <<d, 1>>, Ok(right_90(d)))

\* the caller turns the direction it got once more: d = d.right_90()
TurnAgain ==
    /\ pc = "returned"
    /\ op = "right_90"
    /\ args[2] < MaxTurns
    /\ args' = <<args[1], args[2] + 1>>
    /\ ret' = Returned(right_90(RetVal))
    /\ UNCHANGED <<plane, pc, op, it, yielded, examined, seen, region, queue, t, visited>>

\* surrounding_all / surrounding_cardinal hand the caller an iterator
Construct(name, row, col, r) ==
    /\ pc = "idle"
    /\ pc' = IF r.panic THEN "panic" ELSE "iter"
    /\ op' = name
    /\ args' = <<row, col>>
    /\ it' = IF r.panic THEN NoValue ELSE r.val
    /\ UNCHANGED <<plane, ret, yielded, examined, seen, region, queue, t, visited>>

CallSurroundingAll(row, col, trace) ==
    Construct("surrounding_all", row, col, surrounding_all(plane, row, col, trace))

CallSurroundingCardinal(row, col, trace) ==
    Construct("surrounding_cardinal", row, col,
              surrounding_cardinal(plane, row, col, trace))

\* the caller asks the iterator for its next item
IterNext ==
    /\ pc = "iter"
    /\ LET n == next(plane, it)
       IN  /\ pc' = IF n.panic THEN "panic" ELSE "iter"
           /\ it' = n.self
           /\ ret' = n.val
           /\ yielded' = IF n.panic \/ n.val = None THEN yielded
                         ELSE Append(yielded, Unwrap(n.val))
           /\ examined' = examined \o n.looked
    /\ UNCHANGED <<plane, op, args, seen, region, queue, t, visited>>

CallFloodFill(row, col) ==
    /\ pc = "idle"
    /\ op' = "flood_fill"
    /\ args' = <<row, col>>
    /\ LET i == flood_init(plane, row, col)
       IN  IF i.panic
           THEN /\ pc' = "panic"
                /\ UNCHANGED <<seen, region, queue, t>>
           ELSE /\ pc' = "flood"
                /\ seen' = i.val.seen
                /\ region' = i.val.region
                /\ queue' = i.val.queue
                /\ t' = Some(i.val.t)
    /\ UNCHANGED <<plane, ret, it, yielded, examined, visited>>

\* `while let Some((row, col)) = queue.pop()` with the queue non-empty
FloodStep(trace) ==
    /\ pc = "flood"
    /\ queue # <<>>
    /\ \E b \in { flood_body(plane, [seen |-> seen, region |-> region,
                                      t |-> Unwrap(t), queue |-> queue], trace) } :
           IF b.panic
           THEN /\ pc' = "panic"
                /\ UNCHANGED <<seen, region, queue, visited>>
           ELSE /\ pc' = "flood"
                /\ seen' = b.val.seen
                /\ region' = b.val.region
                /\ queue' = b.val.queue
                /\ visited' = IF b.val.visit = None THEN visited
                              ELSE Append(visited, Unwrap(b.val.visit))
    /\ UNCHANGED <<plane, op, args, ret, it, yielded, examined, t>>

\* a loop iteration of the traversal that removes the queue entry at position i
FloodStepAt(i, trace) ==
    /\ pc = "flood"
    /\ i \in 1..Len(queue)
    /\ \E b \in { flood_body_at(plane, [seen |-> seen, region |-> region,
                                         t |-> Unwrap(t), queue |-> queue], i, trace) } :
           IF b.panic
           THEN /\ pc' = "panic"
                /\ UNCHANGED <<seen, region, queue, visited>>
           ELSE /\ pc' = "flood"
                /\ seen' = b.val.seen
                /\ region' = b.val.region
                /\ queue' = b.val.queue
                /\ visited' = IF b.val.visit = None THEN visited
                              ELSE Append(visited, Unwrap(b.val.visit))
    /\ UNCHANGED <<plane, op, args, ret, it, yielded, examined, t>>

\* queue.pop() is None: the loop ends and the function returns region
FloodReturn ==
    /\ pc = "flood"
    /\ queue = <<>>
    /\ pc' = "returned"
    /\ ret' = Returned(region)
    /\ UNCHANGED <<plane, op, args, it, yielded, examined, seen, region, queue, t, visited>>

FloodRun == (\E trace \in BOOLEAN : FloodStep(trace)) \/ FloodReturn

Idle == pc = "idle"

Next ==
    \/ Idle /\ \E row \in SignedRows(plane), col \in SignedCols(plane) :
            CallInBounds(row, col)
    \/ Idle /\ \E d \in Direction, rc \in ValidCoords(plane) :
            CallApplyIndex(d, rc[1], rc[2])
    \/ Idle /\ \E d \in Direction, rc \in ValidCoords(plane) :
            CallApply(d, rc[1], rc[2])
    \/ Idle /\ \E d \in Direction : CallRight90(d)
    \/ TurnAgain
    \/ Idle /\ \E row \in CallRows(plane), col \in CallCols(plane), trace \in BOOLEAN :
            CallSurroundingAll(row, col, trace)
    \/ Idle /\ \E row \in CallRows(plane), col \in CallCols(plane), trace \in BOOLEAN :
            CallSurroundingCardinal(row, col, trace)
    \/ IterNext
    \/ Idle /\ \E row \in CallRows(plane), col \in CallCols(plane) :
            CallFloodFill(row, col)
    \/ \E trace \in BOOLEAN : FloodStep(trace)
    \/ FloodReturn

\* every function, on every jagged shape
Spec == Init /\ [][Next]_vars

\* flood_fill alone, on every small two-valued grid
NextFlood ==
    \/ Idle /\ \E row \in CallRows(plane), col \in CallCols(plane) :
            CallFloodFill(row, col)
    \/ \E trace \in BOOLEAN : FloodStep(trace)
    \/ FloodReturn

FloodSpec == InitFlood /\ [][NextFlood]_vars

\* the running function is not suspended: single-threaded, synchronous code
FairFloodSpec == FloodSpec /\ WF_vars(FloodRun)

\* flood_fill with the removal order left open: any queue entry may be next
AnyOrderRun ==
    \/ \E i \in 1..Len(queue), trace \in BOOLEAN : FloodStepAt(i, trace)
    \/ FloodReturn

NextAnyOrder ==
    \/ Idle /\ \E row \in CallRows(plane), col \in CallCols(plane) :
            CallFloodFill(row, col)
    \/ \E i \in 1..Len(queue), trace \in BOOLEAN : FloodStepAt(i, trace)
    \/ FloodReturn

\* every two-valued grid of non-empty rows with at most n cells in all
RECURSIVE PlanesOfCells(_)
PlanesOfCells(n) ==
    {<<>>} \cup UNION { { <<r>> \o p : p \in PlanesOfCells(n - Len(r)) } :
                        r \in RowsOver(Values, n) \ {<<>>} }

AnyOrderPlanes == PlanesOfCells(AnyCells)

InitAnyOrder == plane \in AnyOrderPlanes /\ Start

AnyOrderSpec == InitAnyOrder /\ [][NextAnyOrder]_vars

FairAnyOrderSpec == AnyOrderSpec /\ WF_vars(AnyOrderRun)

-----------------------------------------------------------------------------
(* Vocabulary of the properties, defined on the grid alone *)

Cell(p, rc) == p[rc[1] + 1][rc[2] + 1]

IsJagged(p) == \E r1, r2 \in 1..Len(p) : Len(p[r1]) # Len(p[r2])
IsRectangular(p) == ~IsJagged(p)

\* the arguments of the finished or running call
ArgRow == args[1]
ArgCol == args[2]
StartValid == Valid(plane, ArgRow, ArgCol)

IsIter == op \in {"surrounding_all", "surrounding_cardinal"}
IsFlood == op = "flood_fill"

\* N, S, E, W adjacency of two coordinates
Adjacent(a, b) ==
    \/ a[1] = b[1] /\ (a[2] = b[2] + 1 \/ b[2] = a[2] + 1)
    \/ a[2] = b[2] /\ (a[1] = b[1] + 1 \/ b[1] = a[1] + 1)

\* the least set holding S and closed under steps to adjacent valid cells of value v
RECURSIVE Closure(_, _, _)
Closure(p, v, S) ==
    LET more == { c \in ValidCoords(p) :
                    /\ c \notin S
                    /\ Cell(p, c) = v
                    /\ \E s \in S : Adjacent(s, c) }
    IN  IF more = {} THEN S ELSE Closure(p, v, S \cup more)

ConnectedRegion(p, row, col) == Closure(p, Cell(p, <<row, col>>), {<<row, col>>})

-----------------------------------------------------------------------------
(* C1 *)

\* C1: for a valid start, flood_fill returns exactly the set of coordinates
\* reachable from the start by N/S/E/W steps between in-bounds cells whose value
\* equals the start cell's value; the start is always in the result.
C1_FloodFillIsRegion ==
    (IsFlood /\ pc = "returned") =>
        /\ <<ArgRow, ArgCol>> \in RetVal
        /\ RetVal = ConnectedRegion(plane, ArgRow, ArgCol)

\* the second example: start (0,2) of [["A","A","B"],["A","B","B"]]
C1_Witness ==
    /\ IsFlood /\ pc = "returned"
    /\ plane = << <<0, 0, 1>>, <<0, 1, 1>> >>
    /\ args = <<0, 2>>
    /\ RetVal = {<<0, 2>>, <<1, 1>>, <<1, 2>>}

-----------------------------------------------------------------------------
(* C2 *)

\* C2: surrounding_all / surrounding_cardinal called with a start coordinate
\* that is not valid for the grid end in a panic; they never hand back an
\* iterator.
C2_InvalidStartFailsFast ==
    (IsIter /\ ~StartValid) => pc = "panic"

-----------------------------------------------------------------------------
(* C3 *)

ArgDir == args[3]
OffRow == ArgRow + to_offset(ArgDir)[1]
OffCol == ArgCol + to_offset(ArgDir)[2]

\* C3 as stated: for a valid (r,c) and a direction with offset (dr,dc),
\* apply_index returns a coordinate iff r+dr is in [0, rows) and c+dc is in
\* [0, row_length(r)), and the coordinate is (r+dr, c+dc).
C3_AsStated ==
    (op = "apply_index" /\ StartValid) =>
        /\ pc = "returned"
        /\ RetVal # None <=>
                /\ 0 <= OffRow /\ OffRow < Len(plane)
                /\ 0 <= OffCol /\ OffCol < Len(plane[ArgRow + 1])
        /\ RetVal # None => Unwrap(RetVal) = <<OffRow, OffCol>>

\* C3 amended: for a valid (r,c) and a direction with offset (dr,dc),
\* apply_index returns a coordinate iff r+dr is in [0, rows) and c+dc is in
\* [0, row_length(r+dr)), the length of the row stepped into; the coordinate
\* is (r+dr, c+dc).
C3_ApplyIndexInBounds ==
    (op = "apply_index" /\ StartValid) =>
        /\ pc = "returned"
        /\ RetVal # None <=>
                /\ 0 <= OffRow /\ OffRow < Len(plane)
                /\ 0 <= OffCol /\ OffCol < Len(plane[OffRow + 1])
        /\ RetVal # None => Unwrap(RetVal) = <<OffRow, OffCol>>

\* a step into a shorter row: the column exists in the row left behind but
\* not in the row stepped into, and nothing is returned
C3_Witness ==
    /\ op = "apply_index" /\ StartValid /\ pc = "returned"
    /\ 0 <= OffRow /\ OffRow < Len(plane)
    /\ 0 <= OffCol /\ OffCol < Len(plane[ArgRow + 1])
    /\ OffCol >= Len(plane[OffRow + 1])
    /\ RetVal = None

-----------------------------------------------------------------------------
(* C4 *)

ValidCoord(rc) == Valid(plane, rc[1], rc[2])

\* C4: from a valid start, on any grid, no call panics on a grid index, and
\* the coordinate apply_index returns, the coordinates the iterator yields,
\* the coordinates on flood_fill's queue and in its seen and region sets and
\* in its result are all valid coordinates of the grid.
C4_NoInvalidCoordinate ==
    /\ (op \in {"apply_index", "apply", "surrounding_all", "surrounding_cardinal",
                 "flood_fill"} /\ StartValid) => pc # "panic"
    /\ (op = "apply_index" /\ StartValid /\ pc = "returned" /\ RetVal # None) =>
            ValidCoord(Unwrap(RetVal))
    /\ (IsIter /\ StartValid) =>
            \A i \in 1..Len(yielded) : ValidCoord(<<yielded[i][2], yielded[i][3]>>)
    /\ (IsFlood /\ StartValid) =>
            /\ \A i \in 1..Len(queue) : ValidCoord(queue[i])
            /\ \A rc \in seen \cup region : ValidCoord(rc)
            /\ pc = "returned" => \A rc \in RetVal : ValidCoord(rc)

\* a traversal under way on a jagged grid, with several coordinates waiting
C4_Witness ==
    /\ IsFlood /\ StartValid /\ pc = "flood"
    /\ IsJagged(plane)
    /\ Len(queue) >= 2
    /\ Cardinality(seen) >= 3

-----------------------------------------------------------------------------
(* C5 *)

\* the items for the first k directions of dirs, in that order: one for each
\* direction whose neighbour is a valid coordinate
RECURSIVE ExpectedItems(_, _, _, _, _)
ExpectedItems(p, row, col, dirs, k) ==
    IF k = 0 THEN <<>>
    ELSE LET d == dirs[k]
             r == row + to_offset(d)[1]
             c == col + to_offset(d)[2]
         IN  ExpectedItems(p, row, col, dirs, k - 1)
                \o (IF Valid(p, r, c) THEN << <<Cell(p, <<r, c>>), r, c, d>> >> ELSE <<>>)

\* C5: for a valid start the items of successive next() calls are, in the
\* direction set's own order (NW,N,NE,W,E,SW,S,SE or N,S,E,W), one item
\* (cell, row, col, direction) per direction whose neighbour is in bounds and
\* nothing for the others; next() returns None only after the last direction;
\* on a single-cell grid the sequence over ALL is empty.
C5_ItemsInDirectionOrder ==
    (IsIter /\ StartValid) =>
        /\ pc = "iter"
        /\ it.dirs = IF op = "surrounding_all"
                     THEN <<"NW", "N", "NE", "W", "E", "SW", "S", "SE">>
                     ELSE <<"N", "S", "E", "W">>
        /\ yielded = ExpectedItems(plane, ArgRow, ArgCol, it.dirs, it.dir)
        /\ ret = None => it.dir = Len(it.dirs)
        /\ ret \notin {NoValue, None} =>
                /\ yielded[Len(yielded)] = Unwrap(ret)
                /\ Unwrap(ret)[4] = it.dirs[it.dir]
        /\ (ret = None /\ op = "surrounding_all" /\ Len(plane) = 1 /\ Len(plane[1]) = 1)
                => yielded = <<>>

\* a cell on the top edge: N is skipped and S, E, W follow in that order
C5_Witness ==
    /\ op = "surrounding_cardinal" /\ StartValid /\ pc = "iter"
    /\ ret = None
    /\ Len(yielded) = 3
    /\ yielded[1][4] = "S" /\ yielded[2][4] = "E" /\ yielded[3][4] = "W"

-----------------------------------------------------------------------------
(* C6 *)

\* C6: for every coordinate q of the region flood_fill returns for a valid
\* start p, flood_fill started at q returns the same set.
C6_SameRegionFromAnyMember ==
    (IsFlood /\ pc = "returned") =>
        \A q \in RetVal : flood_fill(plane, q[1], q[2]) = Ok(RetVal)

C6_Witness ==
    /\ IsFlood /\ pc = "returned"
    /\ IsJagged(plane)
    /\ Cardinality(RetVal) >= 3

-----------------------------------------------------------------------------
(* C7 *)

\* C7: for a valid start, flood_fill terminates: in every run of a call its
\* queue eventually is empty and the function has returned, for good.
C7_FloodFillTerminates ==
    <>[]((IsFlood /\ StartValid) => (pc = "returned" /\ queue = <<>>))

\* a finished traversal whose region is the whole grid
C7_Witness ==
    /\ IsFlood /\ pc = "returned"
    /\ NumCells(plane) >= 4
    /\ RetVal = ValidCoords(plane)

-----------------------------------------------------------------------------
(* C8 *)

\* C8: during a run of flood_fill no coordinate is visited (marked seen and
\* its cardinal neighbours enumerated) more than once, so the number of visits
\* never exceeds the number of cells of the grid.
C8_NoCoordinateVisitedTwice ==
    IsFlood =>
        /\ \A i, j \in 1..Len(visited) : visited[i] = visited[j] => i = j
        /\ Len(visited) <= NumCells(plane)
        /\ { visited[i] : i \in 1..Len(visited) } = seen

\* a coordinate already visited waits on the queue a second time
C8_Witness ==
    /\ IsFlood /\ pc = "flood"
    /\ Len(visited) >= 3
    /\ \E i \in 1..Len(queue) : queue[i] \in seen

-----------------------------------------------------------------------------
(* C9 *)

Interior(p, row, col) ==
    \A d \in Direction : Valid(p, row + to_offset(d)[1], col + to_offset(d)[2])

Corner(p, row, col) ==
    /\ Valid(p, row, col)
    /\ row \in {0, Len(p) - 1}
    /\ col \in {0, Len(p[row + 1]) - 1}

YieldedDirs == [i \in 1..Len(yielded) |-> yielded[i][4]]

Exhausted == pc = "iter" /\ ret = None

\* C9 as stated: over ALL, an interior cell yields 8 items in the order
\* NW,N,NE,W,E,SW,S,SE and a corner cell of the grid yields exactly 3 items.
C9_AsStated ==
    (op = "surrounding_all" /\ StartValid /\ Exhausted) =>
        /\ Interior(plane, ArgRow, ArgCol) =>
                YieldedDirs = <<"NW", "N", "NE", "W", "E", "SW", "S", "SE">>
        /\ Corner(plane, ArgRow, ArgCol) => Len(yielded) = 3

\* C9 amended: over ALL, an interior cell yields 8 items in the order
\* NW,N,NE,W,E,SW,S,SE, and a corner cell of a rectangular grid with at least
\* two rows and at least two columns yields exactly 3 items.
C9_InteriorEightCornerThree ==
    (op = "surrounding_all" /\ StartValid /\ Exhausted) =>
        /\ Interior(plane, ArgRow, ArgCol) =>
                YieldedDirs = <<"NW", "N", "NE", "W", "E", "SW", "S", "SE">>
        /\ ( /\ Corner(plane, ArgRow, ArgCol)
             /\ IsRectangular(plane)
             /\ Len(plane) >= 2
             /\ Len(plane[1]) >= 2 ) => Len(yielded) = 3

\* the last corner of a 3 x 3 grid
C9_Witness ==
    /\ op = "surrounding_all" /\ Exhausted
    /\ Len(plane) = 3 /\ \A r \in 1..3 : Len(plane[r]) = 3
    /\ args = <<2, 2>>
    /\ YieldedDirs = <<"NW", "N", "W">>

-----------------------------------------------------------------------------
(* C10 *)

\* C10: in_bounds_2d returns for every grid, empty ones and empty rows
\* included, and every signed row and col; it never panics on the row index;
\* it returns true exactly for the valid coordinates.
C10_InBoundsTotal ==
    op = "in_bounds_2d" =>
        /\ pc = "returned"
        /\ RetVal = Valid(plane, ArgRow, ArgCol)

\* a negative row with a column that exists in some row
C10_Witness ==
    /\ op = "in_bounds_2d" /\ pc = "returned"
    /\ ArgRow < 0
    /\ 0 <= ArgCol /\ ArgCol < MaxRowLen(plane)
    /\ RetVal = FALSE

-----------------------------------------------------------------------------
(* C11 *)

\* C11: an iterator instance yields at most as many items as its direction
\* set has directions (8 for ALL, 4 for CARDINAL); its cursor stays within
\* 0..len(dirs) and never decreases; once next() has returned None every later
\* next() returns None and yields nothing.
C11_FiniteSinglePass ==
    /\ []((IsIter /\ pc = "iter") =>
            /\ Len(it.dirs) = IF op = "surrounding_all" THEN 8 ELSE 4
            /\ it.dir \in 0..Len(it.dirs)
            /\ Len(yielded) <= Len(it.dirs))
    /\ [][(pc = "iter" /\ pc' = "iter") =>
            /\ it'.dir >= it.dir
            /\ Exhausted => (ret' = None /\ yielded' = yielded /\ it'.dir = it.dir)]_vars

\* an exhausted iterator over ALL that has yielded an item for every direction
C11_Witness ==
    /\ op = "surrounding_all" /\ Exhausted
    /\ it.dir = Len(it.dirs)
    /\ Len(yielded) = 8

-----------------------------------------------------------------------------
(* C12 *)

\* C12: flood_fill called with a start coordinate that is not valid for the
\* grid panics before any traversal step: nothing is popped or visited, and
\* no region, empty or partial, is ever returned.
C12_FloodInvalidStartPanics ==
    (IsFlood /\ ~StartValid) =>
        /\ pc = "panic"
        /\ ret = NoValue
        /\ seen = {} /\ queue = <<>> /\ visited = <<>>

\* an existing row indexed one past its last cell
C12_Witness ==
    /\ IsFlood /\ pc = "panic"
    /\ ArgRow < Len(plane)
    /\ Len(plane[ArgRow + 1]) >= 1
    /\ ArgCol = Len(plane[ArgRow + 1])

-----------------------------------------------------------------------------
(* C13 *)

\* the direction the turning started from and the number of right_90 calls
TurnFrom == args[1]
Turns == args[2]

\* C13: right_90 applied four times in a row to a direction d returns d, and
\* applied one, two or three times it does not: after n turns the direction
\* is d again exactly when n is a multiple of 4.
C13_RightFourTimesIsIdentity ==
    op = "right_90" =>
        /\ pc = "returned"
        /\ RetVal \in Direction
        /\ RetVal = TurnFrom <=> Turns % 4 = 0

\* SW after NW, NE, SE and back
C13_Witness ==
    /\ op = "right_90" /\ pc = "returned"
    /\ TurnFrom = "SW"
    /\ Turns = 4
    /\ RetVal = "SW"

-----------------------------------------------------------------------------
(* C14 *)

\* the loop of flood_fill is entered and nothing has been popped yet
BeforeFirstPop == IsFlood /\ pc = "flood" /\ visited = <<>>

\* C14 as stated: before the first coordinate is removed from the work-list
\* the seen set and the region set both contain the start coordinate and the
\* work-list contains exactly the start coordinate.
C14_AsStated ==
    BeforeFirstPop =>
        /\ <<ArgRow, ArgCol>> \in seen
        /\ <<ArgRow, ArgCol>> \in region
        /\ queue = << <<ArgRow, ArgCol>> >>

\* C14 amended: before the first coordinate is removed from the work-list
\* the seen set is empty, the region set contains exactly the start
\* coordinate and the work-list contains exactly the start coordinate.
C14_InitialLocals ==
    BeforeFirstPop =>
        /\ seen = {}
        /\ region = { <<ArgRow, ArgCol>> }
        /\ queue = << <<ArgRow, ArgCol>> >>

\* the call has just bound its locals on a grid with a neighbour to explore
C14_Witness ==
    /\ BeforeFirstPop
    /\ StartValid
    /\ seen = {}
    /\ queue = << <<ArgRow, ArgCol>> >>
    /\ Cardinality(ConnectedRegion(plane, ArgRow, ArgCol)) >= 2

-----------------------------------------------------------------------------
(* C15 *)

\* a step of the loop that expands the coordinate on top of the queue
Expands == IsFlood /\ pc = "flood" /\ pc' = "flood" /\ visited' # visited

\* the coordinates that step pushed, in order
Pushed == SubSeq(queue', Len(queue), Len(queue'))

\* the valid cardinal neighbours of rc whose cell equals the start cell's value
MatchingNeighbours(rc) ==
    { c \in ValidCoords(plane) : Adjacent(rc, c) /\ Cell(plane, c) = Unwrap(t) }

\* C15 as stated: while a coordinate is expanded a matching cardinal
\* neighbour is pushed only if it is not in seen; a coordinate already in
\* seen is never pushed.
C15_AsStated ==
    [][Expands => \A i \in 1..Len(Pushed) : Pushed[i] \notin seen']_vars

\* C15 amended: while a coordinate is expanded every valid cardinal neighbour
\* whose value equals the start cell's value is pushed, once, whether or not
\* it is in seen; nothing else is pushed and the rest of the queue is kept.
C15_PushesEveryMatchingNeighbour ==
    [][Expands =>
        /\ SubSeq(queue', 1, Len(queue) - 1) = SubSeq(queue, 1, Len(queue) - 1)
        /\ { Pushed[i] : i \in 1..Len(Pushed) } = MatchingNeighbours(queue[Len(queue)])
        /\ Len(Pushed) = Cardinality(MatchingNeighbours(queue[Len(queue)]))]_vars

\* the start, already in seen, was pushed again by its neighbour
C15_Witness ==
    /\ IsFlood /\ pc = "flood"
    /\ Len(visited) = 2
    /\ visited[1] \in seen
    /\ \E i \in 1..Len(queue) : queue[i] = visited[1]

-----------------------------------------------------------------------------
(* C16 *)

\* the coordinate the next pop removes is already in seen
TopSeen == IsFlood /\ pc = "flood" /\ queue # <<>> /\ queue[Len(queue)] \in seen

\* C16: removing from the work-list a coordinate that is already in seen
\* changes nothing but the work-list, which loses that one entry: seen and
\* region are unchanged, nothing is pushed, no neighbour is enumerated and
\* the loop goes on.
C16_SeenPopIsNoOp ==
    [][TopSeen =>
        /\ queue' = SubSeq(queue, 1, Len(queue) - 1)
        /\ seen' = seen
        /\ region' = region
        /\ visited' = visited
        /\ pc' = "flood"]_vars

\* the queue has just run empty on a region of several cells: the last
\* expansion pushed at least one neighbour, so the last pops found seen entries
C16_Witness ==
    /\ IsFlood /\ pc = "flood"
    /\ queue = <<>>
    /\ Cardinality(seen) >= 2
    /\ region = seen

-----------------------------------------------------------------------------
(* C17 *)

\* C17: the region does not depend on the order of removal: on every grid,
\* from every valid start, the traversal that removes an arbitrary queue
\* entry at each step terminates, and the region it returns is the one the
\* stack-ordered flood_fill returns.
C17_RegionIndependentOfOrder ==
    /\ []((IsFlood /\ pc = "returned") =>
            Ok(RetVal) = flood_fill(plane, ArgRow, ArgCol))
    /\ <>[]((IsFlood /\ StartValid) => pc = "returned")

\* a finished traversal that was not in stack order: from (0,0) both S and E
\* were pushed, the stack would visit E = (0,1) second, this run visited
\* S = (1,0) second
C17_Witness ==
    /\ IsFlood /\ pc = "returned"
    /\ args = <<0, 0>>
    /\ Valid(plane, 0, 1) /\ Cell(plane, <<0, 1>>) = Cell(plane, <<0, 0>>)
    /\ Len(visited) >= 3
    /\ visited[2] = <<1, 0>>

-----------------------------------------------------------------------------
(* C18 *)

\* C18: the iterator is lazy. After any number of next() calls on a valid
\* start the directions examined so far are exactly those before the cursor,
\* each once and in order; a call that yields the item of the direction at
\* (zero-based) index i leaves the cursor at i + 1, so the directions after
\* the yielded one have not been examined.
C18_NextIsLazy ==
    (IsIter /\ StartValid /\ pc = "iter") =>
        /\ examined = SubSeq(it.dirs, 1, it.dir)
        /\ ret \notin {NoValue, None} =>
                /\ it.dir >= 1
                /\ it.dirs[(it.dir - 1) + 1] = Unwrap(ret)[4]
                /\ \A k \in (it.dir + 1)..Len(it.dirs) :
                        \A j \in 1..Len(examined) : examined[j] # it.dirs[k]

\* an interior cell after its first item: NW examined, seven directions with
\* in-bounds neighbours not examined
C18_Witness ==
    /\ op = "surrounding_all" /\ pc = "iter"
    /\ Interior(plane, ArgRow, ArgCol)
    /\ ret \notin {NoValue, None}
    /\ it.dir = 1
    /\ examined = <<"NW">>

-----------------------------------------------------------------------------
(* C19 *)

\* the clockwise quarter turn of an offset vector (rows grow downwards)
QuarterTurn(v) == <<v[2], -v[1]>>

RECURSIVE QuarterTurns(_, _)
QuarterTurns(v, n) == IF n = 0 THEN v ELSE QuarterTurn(QuarterTurns(v, n - 1))

IsCardinal(d) == \E i \in 1..Len(CARDINAL) : CARDINAL[i] = d

\* C19: for a direction d with to_offset(d) = (dr, dc), the offset of
\* right_90(d) is (dc, -dr), and so after n turns the offset is the n-fold
\* quarter turn of d's offset; a cardinal direction turns to a cardinal one
\* and a diagonal direction to a diagonal one.
C19_RightIsQuarterTurnOfOffset ==
    op = "right_90" =>
        /\ to_offset(RetVal) = QuarterTurns(to_offset(TurnFrom), Turns)
        /\ Turns = 1 => to_offset(RetVal) = <<to_offset(TurnFrom)[2], -to_offset(TurnFrom)[1]>>
        /\ IsCardinal(RetVal) <=> IsCardinal(TurnFrom)

\* NE = (-1, 1) turned once is SE = (1, 1)
C19_Witness ==
    /\ op = "right_90" /\ pc = "returned"
    /\ TurnFrom = "NE" /\ Turns = 1
    /\ RetVal = "SE"
    /\ to_offset(RetVal) = <<1, 1>>

-----------------------------------------------------------------------------
(* C20 *)

\* C20: at every step of flood_fill on a valid start region is seen together
\* with the start coordinate, every coordinate on the queue is the start or a
\* cell whose value equals the start cell's value, and once the function has
\* returned region equals seen (and is the value returned).
C20_RegionIsSeenPlusStart ==
    (IsFlood /\ StartValid /\ pc \in {"flood", "returned"}) =>
        /\ region = seen \cup { <<ArgRow, ArgCol>> }
        /\ Unwrap(t) = Cell(plane, <<ArgRow, ArgCol>>)
        /\ \A i \in 1..Len(queue) :
                \/ queue[i] = <<ArgRow, ArgCol>>
                \/ Cell(plane, queue[i]) = Unwrap(t)
        /\ pc = "returned" => (region = seen /\ RetVal = region)

\* the loop under way next to a cell of the other value: the start is
\* visited, its matching neighbour waits on the queue, the other cell does not
C20_Witness ==
    /\ IsFlood /\ StartValid /\ pc = "flood"
    /\ seen = { <<ArgRow, ArgCol>> }
    /\ Len(queue) >= 1
    /\ \E c \in ValidCoords(plane) :
            Adjacent(c, <<ArgRow, ArgCol>>) /\ Cell(plane, c) # Unwrap(t)

====
